---- MODULE Spec2Model ----
(***************************************************************************)
(* Model of the sales-report text parser of pdf-to-text.                   *)
(*                                                                         *)
(* A string is a sequence of one-character strings, so that the regular    *)
(* expressions, split(), trim() and slice() of the source are computed     *)
(* character by character.  The empty string is <<>>.  The cursor i of     *)
(* the source is 0-based; the model's cursor is 1-based (i = source i+1).  *)
(***************************************************************************)
EXTENDS Integers, Sequences, FiniteSets, TLC

VARIABLES impl, rawText, lines, i, currentSucursalID, currentSucursalName,
          rows, pc, value, parsed, kind, csv, inv

vars == <<impl, rawText, lines, i, currentSucursalID, currentSucursalName,
          rows, pc, value, parsed, kind, csv, inv>>

parserVars == <<rawText, lines, i, currentSucursalID, currentSucursalName, rows>>

(***************************************************************************)
(* Bounds                                                                  *)
(***************************************************************************)
MaxLines == 3
MaxTokLen == 6

(***************************************************************************)
(* Character classes and string helpers                                     *)
(***************************************************************************)
Digit == {"0", "1", "2", "3", "4", "5", "6", "7", "8", "9"}

WhiteSpace == {" ", "\t", "\r", "\n"}

NumChar == Digit \cup {".", ","}

\* s.startsWith(p)
StartsWith(s, p) == /\ Len(s) >= Len(p)
                    /\ \A k \in 1..Len(p) : s[k] = p[k]

\* End (exclusive) of the longest run of characters of class S starting at
\* position from: what a greedy \s+, \d+, [\d.,]+ or \S+ consumes.
RunEnd(s, from, S) ==
  CHOOSE k \in from..(Len(s) + 1) :
    /\ \A j \in from..(k - 1) : s[j] \in S
    /\ (k = Len(s) + 1 \/ s[k] \notin S)

\* s.slice(from) with a 1-based from
SliceFrom(s, from) == SubSeq(s, from, Len(s))

\* s.trim()
Trim(s) ==
  IF \A k \in 1..Len(s) : s[k] \in WhiteSpace THEN <<>>
  ELSE LET a == CHOOSE k \in 1..Len(s) :
                  s[k] \notin WhiteSpace /\ \A j \in 1..(k - 1) : s[j] \in WhiteSpace
           b == CHOOSE k \in 1..Len(s) :
                  s[k] \notin WhiteSpace /\ \A j \in (k + 1)..Len(s) : s[j] \in WhiteSpace
       IN SubSeq(s, a, b)

\* s.split(c) for a one-character separator c
RECURSIVE SplitOn(_, _)
SplitOn(s, c) ==
  IF \A k \in 1..Len(s) : s[k] # c THEN <<s>>
  ELSE LET k == CHOOSE k \in 1..Len(s) : s[k] = c /\ \A j \in 1..(k - 1) : s[j] # c
       IN <<SubSeq(s, 1, k - 1)>> \o SplitOn(SubSeq(s, k + 1, Len(s)), c)

\* s.replace(/\./g, "")
RECURSIVE StripDots(_)
StripDots(s) ==
  IF s = <<>> THEN <<>>
  ELSE IF Head(s) = "." THEN StripDots(Tail(s))
  ELSE <<Head(s)>> \o StripDots(Tail(s))

\* array.filter(Boolean) on an array of strings
RECURSIVE FilterNonEmpty(_)
FilterNonEmpty(ss) ==
  IF ss = <<>> THEN <<>>
  ELSE IF Head(ss) = <<>> THEN FilterNonEmpty(Tail(ss))
  ELSE <<Head(ss)>> \o FilterNonEmpty(Tail(ss))

\* s.split(/\r?\n/): split on "\n"; a "\r" right before the "\n" belongs to
\* the separator.
SplitLines(s) ==
  LET pieces == SplitOn(s, "\n")
  IN [k \in 1..Len(pieces) |->
        IF k < Len(pieces) /\ Len(pieces[k]) > 0 /\ pieces[k][Len(pieces[k])] = "\r"
        THEN SubSeq(pieces[k], 1, Len(pieces[k]) - 1)
        ELSE pieces[k]]

\* rawText.split(/\r?\n/).map((line) => line.trim()).filter(Boolean)
NormalizeLines(s) ==
  LET split == SplitLines(s)
  IN FilterNonEmpty([k \in 1..Len(split) |-> Trim(split[k])])

(***************************************************************************)
(* Literals of the source                                                   *)
(***************************************************************************)
kwSucursal == <<"S", "u", "c", "u", "r", "s", "a", "l">>

lblPersona == <<"N", "u", "m", ".", " ", "P", "e", "r", "s", "o", "n", "a", " ",
                "V", "t", "a", "s", ":">>

One == <<"1">>

(***************************************************************************)
(* parseImporteAndQuantity, main.ts                                         *)
(***************************************************************************)
\* mutant: "length >= 2" instead of "length > 2"
parseImporteAndQuantity_Ge2(v) ==
  LET cleaned == StripDots(v)
      parts == SplitOn(cleaned, ",")
  IN IF Len(parts) # 2
     THEN [importe |-> v, quantity |-> One]
     ELSE LET integerPart == parts[1]
              decimalPlusQty == parts[2]
          IN IF Len(decimalPlusQty) >= 2
             THEN [importe |-> integerPart \o <<".">> \o SubSeq(decimalPlusQty, 1, 2),
                   quantity |-> SliceFrom(decimalPlusQty, 3)]
             ELSE [importe |-> integerPart \o <<".">> \o decimalPlusQty,
                   quantity |-> One]

\* String(parseInt(s, 10)) for a non-empty digit string
RECURSIVE Reparsed(_)
Reparsed(s) ==
  IF Len(s) > 1 /\ Head(s) = "0" THEN Reparsed(Tail(s)) ELSE s

\* mutant: the quantity digits are reparsed as an integer
parseImporteAndQuantity_Reparsed(v) ==
  LET cleaned == StripDots(v)
      parts == SplitOn(cleaned, ",")
  IN IF Len(parts) # 2
     THEN [importe |-> v, quantity |-> One]
     ELSE LET integerPart == parts[1]
              decimalPlusQty == parts[2]
          IN IF Len(decimalPlusQty) > 2
             THEN [importe |-> integerPart \o <<".">> \o SubSeq(decimalPlusQty, 1, 2),
                   quantity |-> Reparsed(SliceFrom(decimalPlusQty, 3))]
             ELSE [importe |-> integerPart \o <<".">> \o decimalPlusQty,
                   quantity |-> One]

parseImporteAndQuantity(v) ==
  LET cleaned == StripDots(v)
      parts == SplitOn(cleaned, ",")
  IN IF Len(parts) # 2
     THEN [importe |-> v, quantity |-> One]
     ELSE LET integerPart == parts[1]
              decimalPlusQty == parts[2]
          IN IF Len(decimalPlusQty) > 2
             THEN [importe |-> integerPart \o <<".">> \o SubSeq(decimalPlusQty, 1, 2),
                   quantity |-> SliceFrom(decimalPlusQty, 3)]
             ELSE [importe |-> integerPart \o <<".">> \o decimalPlusQty,
                   quantity |-> One]

(***************************************************************************)
(* The regular expressions of parseSalesReport, main.ts                     *)
(***************************************************************************)
\* /^Sucursal\s+(\d+)\s+\(\s*(.*?)\s*\)/ : positions of the pieces
SucIdStart(l) == RunEnd(l, Len(kwSucursal) + 1, WhiteSpace)
SucIdEnd(l) == RunEnd(l, SucIdStart(l), Digit)
SucParen(l) == RunEnd(l, SucIdEnd(l), WhiteSpace)

sucursalMatch(l) ==
  /\ StartsWith(l, kwSucursal)
  /\ SucIdStart(l) > Len(kwSucursal) + 1
  /\ SucIdEnd(l) > SucIdStart(l)
  /\ SucParen(l) > SucIdEnd(l)
  /\ SucParen(l) <= Len(l)
  /\ l[SucParen(l)] = "("
  /\ \E q \in (SucParen(l) + 1)..Len(l) : l[q] = ")"

\* sucursalMatch[1]
sucursalMatch1(l) == SubSeq(l, SucIdStart(l), SucIdEnd(l) - 1)

\* mutant: the name is captured with its surrounding white space
sucursalMatch2_NoTrim(l) ==
  LET q == CHOOSE q \in (SucParen(l) + 1)..Len(l) :
             l[q] = ")" /\ \A j \in (SucParen(l) + 1)..(q - 1) : l[j] # ")"
  IN SubSeq(l, SucParen(l) + 1, q - 1)

\* sucursalMatch[2]: \s* is greedy and (.*?) lazy, so the capture is the text
\* between "(" and the first ")" without its surrounding white space
sucursalMatch2(l) ==
  LET q == CHOOSE q \in (SucParen(l) + 1)..Len(l) :
             l[q] = ")" /\ \A j \in (SucParen(l) + 1)..(q - 1) : l[j] # ")"
  IN Trim(SubSeq(l, SucParen(l) + 1, q - 1))

\* /^(\d{13})\s+([\d.,]+)/
EanTokStart(l) == RunEnd(l, 14, WhiteSpace)
EanTokEnd(l) == RunEnd(l, EanTokStart(l), NumChar)

\* mutant: /^(\d{13})\d*\s+.../, more than 13 leading digits are accepted
eanMatch_Loose(l) ==
  /\ Len(l) >= 13
  /\ \A k \in 1..13 : l[k] \in Digit
  /\ LET d == RunEnd(l, 14, Digit)
     IN /\ RunEnd(l, d, WhiteSpace) > d
        /\ RunEnd(l, RunEnd(l, d, WhiteSpace), NumChar) > RunEnd(l, d, WhiteSpace)

eanMatch(l) ==
  /\ Len(l) >= 13
  /\ \A k \in 1..13 : l[k] \in Digit
  /\ EanTokStart(l) > 14
  /\ EanTokEnd(l) > EanTokStart(l)

\* mutant: the capture group is one digit short
eanMatch1_Short(l) == SubSeq(l, 1, 12)

\* eanMatch[1], eanMatch[2]
eanMatch1(l) == SubSeq(l, 1, 13)
eanMatch2(l) == SubSeq(l, EanTokStart(l), EanTokEnd(l) - 1)

\* nextLine.match(/Num\. Persona Vtas:\s*(\S+)/) on a line that starts with
\* the label: the first run of non-white-space after the label, "" when the
\* pattern does not match
personaCapture(l) ==
  LET a == RunEnd(l, Len(lblPersona) + 1, WhiteSpace)
      b == RunEnd(l, a, {l[k] : k \in 1..Len(l)} \ WhiteSpace)
  IN IF b > a THEN SubSeq(l, a, b - 1) ELSE <<>>

(***************************************************************************)
(* Input texts: up to MaxLines raw lines of Pool joined by one line ending  *)
(***************************************************************************)
LineH1 ==
  <<"S", "u", "c", "u", "r", "s", "a", "l", " ", "8", "4", "2", "2", "4",
    "1", "6", "2", "0", "0", "0", "3", "4", " ", "(", " ", "E", "C", "I",
    " ", "G", "O", "Y", "A", " ", "0", "0", "0", "3", " ", ")">>

LineI1 ==
  <<"8", "4", "3", "7", "0", "2", "1", "8", "0", "7", "0", "1", "1", " ",
    "1", "1", "9", ",", "7", "6", "3">>

LineP1 ==
  <<"N", "u", "m", ".", " ", "P", "e", "r", "s", "o", "n", "a", " ", "V",
    "t", "a", "s", ":", " ", "0", "0", "5", "1", "2", "5", "8", "0", "0",
    "2">>

LineI2 ==
  <<"8", "4", "3", "7", "0", "2", "1", "8", "0", "7", "9", "9", "9", " ",
    "4", "9", ",", "9", "1">>

LineH2 ==
  <<" ", " ", "S", "u", "c", "u", "r", "s", "a", "l", " ", " ", " ", "8",
    "4", "2", "2", "4", "1", "6", "2", "0", "0", "0", "3", "5", " ", "(",
    "B", ")", " ", "2", "6", "3">>

LineMH ==
  <<"S", "u", "c", "u", "r", "s", "a", "l", " ", "8", "4", "2", "2", "4",
    "1", "6", "2", "0", "0", "0", "3", "6", " ", "B">>

LineI3 ==
  <<"8", "4", "3", "7", "0", "2", "1", "8", "0", "7", "0", "1", "1", " ",
    "1", "2", "3">>

LineI4 ==
  <<"8", "4", "3", "7", "0", "2", "1", "8", "0", "7", "9", "9", "9", " ",
    "4", "9", ",", "9">>

LineD14 ==
  <<"8", "4", "3", "7", "0", "2", "1", "8", "0", "7", "0", "1", "1", "1",
    " ", "1", ",", "2", "3">>

LineP2 ==
  <<"N", "u", "m", ".", " ", "P", "e", "r", "s", "o", "n", "a", " ", "V",
    "t", "a", "s", ":", " ", " ", "0", "0", " ", "5", "1", " ">>

LineE ==
  <<>>

LineX ==
  <<"T", "o", "t", "a", "l">>

Pool == {LineH1, LineI1, LineP1, LineI2, LineH2, LineMH, LineI3, LineI4,
         LineD14, LineP2, LineE, LineX}

LF == <<"\n">>
CRLF == <<"\r", "\n">>
EOLs == {LF, CRLF}

LineSeqs == UNION {[1..n -> Pool] : n \in 0..MaxLines}

RECURSIVE JoinLines(_, _)
JoinLines(ls, eol) ==
  IF ls = <<>> THEN <<>>
  ELSE IF Len(ls) = 1 THEN ls[1]
  ELSE ls[1] \o eol \o JoinLines(Tail(ls), eol)

\* the end-to-end scenario of the specification
EndToEndLines == <<LineH1, LineI1, LineP1, LineI2>>

EndToEndTexts == {JoinLines(EndToEndLines, eol) : eol \in EOLs}

\* the four-line scenario is an input whatever MaxLines is
\* an item line whose token has a thousands dot, alone and under a header
LineID ==
  <<"8", "4", "3", "7", "0", "2", "1", "8", "0", "7", "0", "1", "1", " ",
    "1", ".", "1", "1", "9", ",", "7", "6", "3">>

DotTexts == {LineID, JoinLines(<<LineH1, LineID>>, LF)}

Texts ==
  {JoinLines(ls, eol) : ls \in LineSeqs, eol \in EOLs} \cup EndToEndTexts
    \cup DotTexts

NoResult == [importe |-> <<>>, quantity |-> <<>>]

(***************************************************************************)
(* parseSalesReport, main.ts: one action per statement group of the pass     *)
(***************************************************************************)
Init ==
  /\ impl = "main"
  /\ kind = "string"
  /\ csv = <<>>
  /\ inv = <<>>
  /\ rawText \in Texts
  /\ lines = <<>>
  /\ i = 1
  /\ currentSucursalID = <<>>
  /\ currentSucursalName = <<>>
  /\ rows = <<>>
  /\ pc = "start"
  /\ value = <<>>
  /\ parsed = NoResult

\* lines 488-491
SplitAndFilter ==
  /\ pc = "start"
  /\ kind = "string"
  /\ lines' = NormalizeLines(rawText)
  /\ pc' = "scan"
  /\ UNCHANGED <<inv, csv, kind, impl, rawText, i, currentSucursalID, currentSucursalName, rows,
                 value, parsed>>

\* mutant: the header branch forgets to update the store name
SucursalLine_IdOnly ==
  /\ pc = "scan"
  /\ i <= Len(lines)
  /\ sucursalMatch(lines[i])
  /\ currentSucursalID' = sucursalMatch1(lines[i])
  /\ i' = i + 1
  /\ UNCHANGED <<inv, csv, kind, impl, rawText, lines, currentSucursalName, rows, pc, value, parsed>>

\* mutant: the header line is also stored as a row
SucursalLine_EmitsRow ==
  /\ pc = "scan"
  /\ i <= Len(lines)
  /\ sucursalMatch(lines[i])
  /\ currentSucursalID' = sucursalMatch1(lines[i])
  /\ currentSucursalName' = sucursalMatch2(lines[i])
  /\ rows' = Append(rows, [SucursalID |-> sucursalMatch1(lines[i]),
                           SucursalName |-> sucursalMatch2(lines[i]),
                           EAN |-> <<>>,
                           CantidadVendida |-> <<>>,
                           Importe |-> <<>>,
                           NumPersonaVtas |-> <<>>])
  /\ i' = i + 1
  /\ UNCHANGED <<inv, csv, kind, impl, rawText, lines, pc, value, parsed>>

\* lines 538-543: the header branch of one loop iteration
SucursalLine ==
  /\ pc = "scan"
  /\ i <= Len(lines)
  /\ sucursalMatch(lines[i])
  /\ currentSucursalID' = sucursalMatch1(lines[i])
  /\ currentSucursalName' = sucursalMatch2(lines[i])
  /\ i' = i + 1
  /\ UNCHANGED <<inv, csv, kind, impl, rawText, lines, rows, pc, value, parsed>>

\* lines 554-557: the guard of the persona lookahead
HasPersona(k) == k + 1 <= Len(lines) /\ StartsWith(lines[k + 1], lblPersona)

\* mutant: an item line before the first header is rejected
EanLine_NeedsHeader ==
  /\ pc = "scan"
  /\ i <= Len(lines)
  /\ ~sucursalMatch(lines[i])
  /\ eanMatch(lines[i])
  /\ LET r == parseImporteAndQuantity(eanMatch2(lines[i]))
          numPersona == IF HasPersona(i) THEN personaCapture(lines[i + 1]) ELSE <<>>
     IN rows' = IF currentSucursalID = <<>> THEN rows
                ELSE Append(rows, [SucursalID |-> currentSucursalID,
                                   SucursalName |-> currentSucursalName,
                                   EAN |-> eanMatch1(lines[i]),
                                   CantidadVendida |-> r.quantity,
                                   Importe |-> r.importe,
                                   NumPersonaVtas |-> numPersona])
  /\ i' = IF HasPersona(i) THEN i + 2 ELSE i + 1
  /\ UNCHANGED <<inv, csv, kind, impl, rawText, lines, currentSucursalID,
                 currentSucursalName, pc, value, parsed>>

\* mutant: a second sale of an EAN under the same store is merged away
EanLine_Dedup ==
  /\ pc = "scan"
  /\ i <= Len(lines)
  /\ ~sucursalMatch(lines[i])
  /\ eanMatch(lines[i])
  /\ LET r == parseImporteAndQuantity(eanMatch2(lines[i]))
          numPersona == IF HasPersona(i) THEN personaCapture(lines[i + 1]) ELSE <<>>
     IN rows' = IF \E k \in 1..Len(rows) : /\ rows[k].EAN = eanMatch1(lines[i])
                                           /\ rows[k].SucursalID = currentSucursalID
                THEN rows
                ELSE Append(rows, [SucursalID |-> currentSucursalID,
                                   SucursalName |-> currentSucursalName,
                                   EAN |-> eanMatch1(lines[i]),
                                   CantidadVendida |-> r.quantity,
                                   Importe |-> r.importe,
                                   NumPersonaVtas |-> numPersona])
  /\ i' = IF HasPersona(i) THEN i + 2 ELSE i + 1
  /\ UNCHANGED <<inv, csv, kind, impl, rawText, lines, currentSucursalID,
                 currentSucursalName, pc, value, parsed>>

\* lines 546-573: the item branch of one loop iteration
EanLine ==
  /\ pc = "scan"
  /\ i <= Len(lines)
  /\ ~sucursalMatch(lines[i])
  /\ eanMatch(lines[i])
  /\ LET r == parseImporteAndQuantity(eanMatch2(lines[i]))
          numPersona == IF HasPersona(i) THEN personaCapture(lines[i + 1]) ELSE <<>>
     IN rows' = Append(rows, [SucursalID |-> currentSucursalID,
                              SucursalName |-> currentSucursalName,
                              EAN |-> eanMatch1(lines[i]),
                              CantidadVendida |-> r.quantity,
                              Importe |-> r.importe,
                              NumPersonaVtas |-> numPersona])
  /\ i' = IF HasPersona(i) THEN i + 2 ELSE i + 1
  /\ UNCHANGED <<inv, csv, kind, impl, rawText, lines, currentSucursalID, currentSucursalName, pc,
                 value, parsed>>

\* mutant: the loop steps back to the line before a discarded line
SkipLine_Rewind ==
  /\ pc = "scan"
  /\ i <= Len(lines)
  /\ ~sucursalMatch(lines[i])
  /\ ~eanMatch(lines[i])
  /\ i' = IF i > 1 THEN i - 1 ELSE i + 1
  /\ UNCHANGED <<inv, csv, kind, impl, rawText, lines, currentSucursalID,
                 currentSucursalName, rows, pc, value, parsed>>

\* mutant: a discarded persona line gives its value to the last record
SkipLine_AttachToLast ==
  /\ pc = "scan"
  /\ i <= Len(lines)
  /\ ~sucursalMatch(lines[i])
  /\ ~eanMatch(lines[i])
  /\ rows' = IF StartsWith(lines[i], lblPersona) /\ rows # <<>>
             THEN [rows EXCEPT ![Len(rows)].NumPersonaVtas = personaCapture(lines[i])]
             ELSE rows
  /\ i' = i + 1
  /\ UNCHANGED <<inv, csv, kind, impl, rawText, lines, currentSucursalID,
                 currentSucursalName, pc, value, parsed>>

\* lines 533-574: a line that is neither a header nor an item
SkipLine ==
  /\ pc = "scan"
  /\ i <= Len(lines)
  /\ ~sucursalMatch(lines[i])
  /\ ~eanMatch(lines[i])
  /\ i' = i + 1
  /\ UNCHANGED <<inv, csv, kind, impl, rawText, lines, currentSucursalID, currentSucursalName, rows,
                 pc, value, parsed>>

\* line 576
Return ==
  /\ pc = "scan"
  /\ i > Len(lines)
  /\ pc' = "done"
  /\ UNCHANGED <<inv, csv, kind, impl, rawText, lines, i, currentSucursalID, currentSucursalName,
                 rows, value, parsed>>

Next == SplitAndFilter \/ SucursalLine \/ EanLine \/ SkipLine \/ Return

Spec == Init /\ [][Next]_vars

(***************************************************************************)
(* Properties of parseSalesReport (main.ts), checked under Spec             *)
(***************************************************************************)
Last(sq) == sq[Len(sq)]

\* The item-line pattern, stated on its own: 13 digits at line start, white
\* space, then a token of digits, dots and commas starting at position a
ItemTokenAt(l, a) ==
  /\ Len(l) >= 13
  /\ \A k \in 1..13 : l[k] \in Digit
  /\ a > 14
  /\ a <= Len(l)
  /\ \A k \in 14..(a - 1) : l[k] \in WhiteSpace
  /\ l[a] \in NumChar

ItemPattern(l) == \E a \in 15..Len(l) : ItemTokenAt(l, a)

\* ... and with the requirement that the token contains a decimal comma
ItemPatternWithComma(l) ==
  \E a \in 15..Len(l) :
    /\ ItemTokenAt(l, a)
    /\ \E c \in a..Len(l) : l[c] = "," /\ \A k \in a..c : l[k] \in NumChar

\* ^\d+\.\d{2}$
MoneyFormat(s) ==
  /\ Len(s) >= 4
  /\ s[Len(s) - 2] = "."
  /\ \A k \in 1..Len(s) : k # Len(s) - 2 => s[k] \in Digit

\* ^\d{13}$
Ean13(s) == Len(s) = 13 /\ \A k \in 1..13 : s[k] \in Digit

SucursalIdOfH1 == SubSeq(LineH1, 10, 22)

EndToEndTable ==
  <<[SucursalID |-> SucursalIdOfH1,
     SucursalName |-> <<"E", "C", "I", " ", "G", "O", "Y", "A", " ", "0", "0", "0", "3">>,
     EAN |-> SubSeq(LineI1, 1, 13),
     CantidadVendida |-> <<"3">>,
     Importe |-> <<"1", "1", "9", ".", "7", "6">>,
     NumPersonaVtas |-> <<"0", "0", "5", "1", "2", "5", "8", "0", "0", "2">>],
    [SucursalID |-> SucursalIdOfH1,
     SucursalName |-> <<"E", "C", "I", " ", "G", "O", "Y", "A", " ", "0", "0", "0", "3">>,
     EAN |-> SubSeq(LineI2, 1, 13),
     CantidadVendida |-> <<"1">>,
     Importe |-> <<"4", "9", ".", "9", "1">>,
     NumPersonaVtas |-> <<>>]>>

\* C1: parsing the four-line end-to-end input returns exactly the two records
\* of the scenario, in order.
C1_EndToEnd ==
  (pc = "done" /\ rawText \in EndToEndTexts) => rows = EndToEndTable

C1_Witness ==
  /\ pc = "done"
  /\ rawText = JoinLines(EndToEndLines, LF)
  /\ Len(rows) = 2
  /\ i = 5

\* C2: every record's Importe has the form digits "." two digits, also for a
\* one-digit fraction and for the fallback branch.
C2_ImporteFormat ==
  \A k \in 1..Len(rows) : MoneyFormat(rows[k].Importe)

\* C3: every record's EAN is exactly 13 decimal digits.
C3_Ean13 ==
  \A k \in 1..Len(rows) : Ean13(rows[k].EAN)

\* a pass over a 14-digit line and a real item line has ended with one record
C3_Witness ==
  /\ pc = "done"
  /\ Len(rows) = 1
  /\ \E k \in 1..Len(lines) : lines[k] = LineD14

\* C4 as stated: the table is no longer than the number of normalized lines
\* with 13 digits, white space and a token that contains a decimal comma.
C4_Original ==
  pc # "start" =>
    Len(rows) <= Cardinality({k \in 1..Len(lines) : ItemPatternWithComma(lines[k])})

\* C4 amended: the table is no longer than the number of normalized lines with
\* 13 digits at line start, white space and a token of digits, dots and
\* commas (a comma is not required).
C4_RecordsAtMostItemLines ==
  pc # "start" =>
    Len(rows) <= Cardinality({k \in 1..Len(lines) : ItemPattern(lines[k])})

\* a finished pass with a record from a token without comma, and a persona
\* line and a 14-digit line that gave no record
C4_Witness ==
  /\ pc = "done"
  /\ Len(rows) = 1
  /\ lines = <<LineI3, LineP1, LineD14>>

\* C8: each record carries the id and name captured from the nearest header
\* line before its item line (empty when there is none), and the records
\* already in the table are not touched.
C8_ContextCarryOver ==
  [][Len(rows') > Len(rows) =>
       LET r == Last(rows')
           hs == {j \in 1..(i - 1) : sucursalMatch(lines[j])}
       IN /\ SubSeq(rows', 1, Len(rows)) = rows
          /\ Len(rows') = Len(rows) + 1
          /\ IF hs = {}
             THEN r.SucursalID = <<>> /\ r.SucursalName = <<>>
             ELSE LET j == CHOOSE j \in hs : \A h \in hs : h <= j
                  IN /\ r.SucursalID = sucursalMatch1(lines[j])
                     /\ r.SucursalName = sucursalMatch2(lines[j])]_vars

\* one header, then two item lines: both records carry the header's context
C8_Witness ==
  /\ pc = "done"
  /\ Len(lines) = 3
  /\ sucursalMatch(lines[1])
  /\ Len(rows) = 2
  /\ rows[1].SucursalID = sucursalMatch1(lines[1])
  /\ rows[2].SucursalID = rows[1].SucursalID
  /\ rows[2].SucursalName = rows[1].SucursalName
  /\ rows[1].SucursalName # <<>>

\* C9: an item line followed by the line "Num. Persona Vtas: V" gives a record
\* with NumPersonaVtas = V (the text after the colon, trimmed) and touches no
\* other record; followed by any other line, or by none, it gives "".
C9_PersonaAttachment ==
  [][Len(rows') > Len(rows) =>
       /\ SubSeq(rows', 1, Len(rows)) = rows
       /\ Len(rows') = Len(rows) + 1
       /\ Last(rows').NumPersonaVtas =
            IF i + 1 <= Len(lines) /\ StartsWith(lines[i + 1], lblPersona)
            THEN Trim(SliceFrom(lines[i + 1], Len(lblPersona) + 1))
            ELSE <<>>]_vars

(***************************************************************************)
(* parseImporteAndQuantity on its own: every token of up to MaxTokLen       *)
(* characters that the item pattern [\d.,]+ can capture, over a reduced     *)
(* alphabet, is handed to each re-implementation of the helper              *)
(***************************************************************************)
\* part_003, lines 205-224
parseImporteAndQuantity003(v) ==
  LET cleaned == StripDots(v)
      parts == SplitOn(cleaned, ",")
      \* [intPart, rest] = cleaned.split(","): rest is undefined for one part
      intPartFalsy == parts[1] = <<>>
      restFalsy == Len(parts) < 2 \/ parts[2] = <<>>
  IN IF intPartFalsy \/ restFalsy
     THEN [importe |-> cleaned, quantity |-> One]
     ELSE IF Len(parts[2]) > 2
     THEN [importe |-> parts[1] \o <<".">> \o SubSeq(parts[2], 1, 2),
           quantity |-> SliceFrom(parts[2], 3)]
     ELSE [importe |-> parts[1] \o <<".">> \o parts[2],
           quantity |-> One]

\* part_005, lines 188-205
parseImporteAndQuantity005(v) ==
  LET cleaned == StripDots(v)
      parts == SplitOn(cleaned, ",")
      intPartFalsy == parts[1] = <<>>
      restFalsy == Len(parts) < 2 \/ parts[2] = <<>>
  IN IF intPartFalsy \/ restFalsy
     THEN [importe |-> cleaned, quantity |-> One]
     ELSE IF Len(parts[2]) > 2
     THEN [importe |-> parts[1] \o <<".">> \o SubSeq(parts[2], 1, 2),
           quantity |-> SliceFrom(parts[2], 3)]
     ELSE [importe |-> parts[1] \o <<".">> \o parts[2],
           quantity |-> One]

TokAlphabet == {"0", "7", ",", "."}

Tokens == UNION {[1..n -> TokAlphabet] : n \in 1..MaxTokLen}

DecompImpls == {"main", "part_003", "part_005"}

InitD ==
  /\ impl \in DecompImpls
  /\ kind = "string"
  /\ csv = <<>>
  /\ inv = <<>>
  /\ value \in Tokens
  /\ parsed = NoResult
  /\ pc = "call"
  /\ rawText = <<>>
  /\ lines = <<>>
  /\ i = 1
  /\ currentSucursalID = <<>>
  /\ currentSucursalName = <<>>
  /\ rows = <<>>

\* one call of the helper on the captured token
Decompose ==
  /\ pc = "call"
  /\ parsed' = CASE impl = "main" -> parseImporteAndQuantity(value)
                 [] impl = "part_003" -> parseImporteAndQuantity003(value)
                 [] impl = "part_005" -> parseImporteAndQuantity005(value)
  /\ pc' = "returned"
  /\ UNCHANGED <<inv, csv, kind, impl, value, parserVars>>

NextD == Decompose

SpecD == InitD /\ [][NextD]_vars

\* the split of the dot-stripped token on "," yields exactly two non-empty parts
TwoNonEmptyParts(v) ==
  LET parts == SplitOn(StripDots(v), ",")
  IN Len(parts) = 2 /\ parts[1] # <<>> /\ parts[2] # <<>>

\* C6: when the split of the dot-stripped token does not yield exactly two
\* non-empty parts, the result is Importe = the unmodified token and
\* CantidadVendida = "1".
C6_Fallback ==
  (pc = "returned" /\ ~TwoNonEmptyParts(value)) =>
    parsed = [importe |-> value, quantity |-> One]

\* v = I "," CC Q with I a non-empty digit string, CC two digits and Q a
\* (possibly empty) digit string; c is the position of the comma
PriceQtyToken(v, c) ==
  /\ c >= 2
  /\ Len(v) >= c + 2
  /\ v[c] = ","
  /\ \A k \in 1..Len(v) : k # c => v[k] \in Digit

\* C7: decomposing I "," CC Q returns Importe = I "." CC and CantidadVendida =
\* Q, and CantidadVendida = "1" when Q is empty.
C7_RoundTrip ==
  pc = "returned" =>
    \A c \in 1..Len(value) :
      PriceQtyToken(value, c) =>
        /\ parsed.importe = SubSeq(value, 1, c - 1) \o <<".">> \o SubSeq(value, c + 1, c + 2)
        /\ parsed.quantity = IF Len(value) > c + 2 THEN SliceFrom(value, c + 3) ELSE One

\* "7,070" was decomposed into price 7.07 and the one-digit quantity 0
C7_Witness ==
  /\ pc = "returned"
  /\ impl = "main"
  /\ value = <<"7", ",", "0", "7", "0">>
  /\ parsed = [importe |-> <<"7", ".", "0", "7">>, quantity |-> <<"0">>]

(***************************************************************************)
(* parseSalesReport of part_006: the same pass with its own header regex    *)
(* and the decomposition written inline                                      *)
(***************************************************************************)
\* /^Sucursal\s+(\d{13})\s+\(\s*([^)]*?)\s*\)/ : the id is exactly 13 digits
sucursalMatch006(l) ==
  /\ sucursalMatch(l)
  /\ SucIdEnd(l) - SucIdStart(l) = 13

Init006 ==
  /\ impl = "part_006"
  /\ kind = "string"
  /\ csv = <<>>
  /\ inv = <<>>
  /\ rawText \in Texts
  /\ lines = <<>>
  /\ i = 1
  /\ currentSucursalID = <<>>
  /\ currentSucursalName = <<>>
  /\ rows = <<>>
  /\ pc = "start"
  /\ value = <<>>
  /\ parsed = NoResult

\* line 107
SplitAndFilter006 ==
  /\ pc = "start"
  /\ lines' = NormalizeLines(rawText)
  /\ pc' = "scan"
  /\ UNCHANGED <<inv, csv, kind, impl, rawText, i, currentSucursalID, currentSucursalName, rows,
                 value, parsed>>

\* lines 129-134
SucursalLine006 ==
  /\ pc = "scan"
  /\ i <= Len(lines)
  /\ sucursalMatch006(lines[i])
  /\ currentSucursalID' = sucursalMatch1(lines[i])
  /\ currentSucursalName' = sucursalMatch2(lines[i])
  /\ i' = i + 1
  /\ UNCHANGED <<inv, csv, kind, impl, rawText, lines, rows, pc, value, parsed>>

\* lines 137-168: const [intPart, fracPart] = numBlock.split(","); with no
\* comma in the token fracPart is undefined and fracPart.length throws a
\* TypeError that nothing in the function catches
EanLine006 ==
  /\ pc = "scan"
  /\ i <= Len(lines)
  /\ ~sucursalMatch006(lines[i])
  /\ eanMatch(lines[i])
  /\ LET numBlock == eanMatch2(lines[i])
         parts == SplitOn(numBlock, ",")
     IN IF Len(parts) < 2
        THEN /\ pc' = "threw"
             /\ UNCHANGED <<i, rows>>
        ELSE LET intPart == parts[1]
                 fracPart == parts[2]
                 importe == IF Len(fracPart) > 2
                            THEN intPart \o <<".">> \o SubSeq(fracPart, 1, 2)
                            ELSE intPart \o <<".">> \o fracPart
                 cantidad == IF Len(fracPart) > 2 THEN SliceFrom(fracPart, 3) ELSE One
                 numPersona == IF HasPersona(i) THEN personaCapture(lines[i + 1])
                               ELSE <<>>
             IN /\ rows' = Append(rows, [SucursalID |-> currentSucursalID,
                                         SucursalName |-> currentSucursalName,
                                         EAN |-> eanMatch1(lines[i]),
                                         CantidadVendida |-> cantidad,
                                         Importe |-> importe,
                                         NumPersonaVtas |-> numPersona])
                /\ i' = IF HasPersona(i) THEN i + 2 ELSE i + 1
                /\ pc' = pc
  /\ UNCHANGED <<inv, csv, kind, impl, rawText, lines, currentSucursalID, currentSucursalName,
                 value, parsed>>

\* lines 125-169: a line that is neither a header nor an item
SkipLine006 ==
  /\ pc = "scan"
  /\ i <= Len(lines)
  /\ ~sucursalMatch006(lines[i])
  /\ ~eanMatch(lines[i])
  /\ i' = i + 1
  /\ UNCHANGED <<inv, csv, kind, impl, rawText, lines, currentSucursalID, currentSucursalName, rows,
                 pc, value, parsed>>

\* line 171
Return006 ==
  /\ pc = "scan"
  /\ i > Len(lines)
  /\ pc' = "done"
  /\ UNCHANGED <<inv, csv, kind, impl, rawText, lines, i, currentSucursalID, currentSucursalName,
                 rows, value, parsed>>

Next006 == SplitAndFilter006 \/ SucursalLine006 \/ EanLine006 \/ SkipLine006 \/ Return006

Spec006 == Init006 /\ [][Next006]_vars

\* C5: the parser never raises for malformed content; every pass over a string
\* runs to its return, also over an item line whose token has no comma.
C5_NeverRaises == pc # "threw"

(***************************************************************************)
(* parseSalesReport of part_001: labels and values on lines of their own,   *)
(* blank lines kept                                                          *)
(***************************************************************************)
UpperLetters ==
  <<"A", "B", "C", "D", "E", "F", "G", "H", "I", "J", "K", "L", "M", "N",
    "O", "P", "Q", "R", "S", "T", "U", "V", "W", "X", "Y", "Z">>

LowerLetters ==
  <<"a", "b", "c", "d", "e", "f", "g", "h", "i", "j", "k", "l", "m", "n",
    "o", "p", "q", "r", "s", "t", "u", "v", "w", "x", "y", "z">>

\* c.toLowerCase() for one character
LowerChar(c) ==
  IF \E k \in 1..26 : UpperLetters[k] = c
  THEN LowerLetters[CHOOSE k \in 1..26 : UpperLetters[k] = c]
  ELSE c

\* s.toLowerCase()
LowerCase(s) == [k \in 1..Len(s) |-> LowerChar(s[k])]

kwEAN == <<"E", "A", "N">>

\* /^\d{10,}/
TenDigits(l) == Len(l) >= 10 /\ \A k \in 1..10 : l[k] \in Digit

\* s.replace(/[()]/g, "")
RECURSIVE StripParens(_)
StripParens(s) ==
  IF s = <<>> THEN <<>>
  ELSE IF Head(s) \in {"(", ")"} THEN StripParens(Tail(s))
  ELSE <<Head(s)>> \o StripParens(Tail(s))

\* lines[k] || ""
LineOrEmpty(k) == IF k <= Len(lines) THEN lines[k] ELSE <<>>

Line001Id ==
  <<"8", "4", "2", "2", "4", "1", "6", "2", "0", "0", "0", "3", "4">>

Line001Name ==
  <<"(", " ", "E", "C", "I", " ", "G", "O", "Y", "A", " ", "0", "0", "0",
    "3", " ", ")">>

Line001Ean ==
  <<"8", "4", "3", "7", "0", "2", "1", "8", "0", "7", "0", "1", "1">>

Line001Importe == <<"4", "9", ",", "9">>

Pool001 == {kwSucursal, Line001Id, Line001Name, kwEAN, Line001Ean, Line001Importe,
            One, LineP1}

MaxLines001 == 4

\* texts with an empty line between a label line and the line after it
BlankTexts001 ==
  {JoinLines(<<kwEAN, LineE, Line001Ean, Line001Importe>>, LF),
   JoinLines(<<kwSucursal, LineE, Line001Id, Line001Name>>, LF)}

Texts001 ==
  {JoinLines(ls, LF) : ls \in UNION {[1..n -> Pool001] : n \in 0..MaxLines001}}
    \cup BlankTexts001

Init001 ==
  /\ impl = "part_001"
  /\ kind = "string"
  /\ csv = <<>>
  /\ inv = <<>>
  /\ rawText \in Texts001
  /\ lines = <<>>
  /\ i = 1
  /\ currentSucursalID = <<>>
  /\ currentSucursalName = <<>>
  /\ rows = <<>>
  /\ pc = "start"
  /\ value = <<>>
  /\ parsed = NoResult

\* line 110: split and trim, empty lines are kept
Split001 ==
  /\ pc = "start"
  /\ lines' = [k \in 1..Len(SplitLines(rawText)) |-> Trim(SplitLines(rawText)[k])]
  /\ pc' = "scan"
  /\ UNCHANGED <<inv, csv, kind, impl, rawText, i, currentSucursalID, currentSucursalName, rows,
                 value, parsed>>

\* lines 136-154: a line "Sucursal" sets the context from the two lines after
\* it, and clears what they do not provide
SucursalLabel001 ==
  /\ pc = "scan"
  /\ i <= Len(lines)
  /\ LowerCase(lines[i]) = LowerCase(kwSucursal)
  /\ currentSucursalID' = IF TenDigits(LineOrEmpty(i + 1)) THEN LineOrEmpty(i + 1)
                          ELSE <<>>
  /\ currentSucursalName' = IF StartsWith(LineOrEmpty(i + 2), <<"(">>)
                            THEN Trim(StripParens(LineOrEmpty(i + 2)))
                            ELSE <<>>
  /\ i' = i + 1
  /\ UNCHANGED <<inv, csv, kind, impl, rawText, lines, rows, pc, value, parsed>>

\* lines 172-180: the first of the next five lines that starts with the label,
\* the search stopping at a missing or empty line
PersonaLine001(k) ==
  LET js == {j \in 1..5 : /\ StartsWith(LineOrEmpty(k + j), lblPersona)
                          /\ \A h \in 1..(j - 1) :
                               /\ LineOrEmpty(k + h) # <<>>
                               /\ ~StartsWith(LineOrEmpty(k + h), lblPersona)}
  IN IF js = {} THEN <<>> ELSE LineOrEmpty(k + CHOOSE j \in js : TRUE)

\* lines 159-204: a line "EAN" takes the code, the amount and the quantity
\* from the three lines after it
EanLabel001 ==
  /\ pc = "scan"
  /\ i <= Len(lines)
  /\ LowerCase(lines[i]) = LowerCase(kwEAN)
  /\ rows' = IF TenDigits(LineOrEmpty(i + 1))
             THEN Append(rows, [SucursalID |-> currentSucursalID,
                                SucursalName |-> currentSucursalName,
                                EAN |-> LineOrEmpty(i + 1),
                                CantidadVendida |-> LineOrEmpty(i + 3),
                                Importe |-> LineOrEmpty(i + 2),
                                NumPersonaVtas |->
                                  IF PersonaLine001(i) = <<>> THEN <<>>
                                  ELSE personaCapture(PersonaLine001(i))])
             ELSE rows
  /\ i' = i + 1
  /\ UNCHANGED <<inv, csv, kind, impl, rawText, lines, currentSucursalID, currentSucursalName, pc,
                 value, parsed>>

\* lines 131-206: any other line
OtherLine001 ==
  /\ pc = "scan"
  /\ i <= Len(lines)
  /\ LowerCase(lines[i]) # LowerCase(kwSucursal)
  /\ LowerCase(lines[i]) # LowerCase(kwEAN)
  /\ i' = i + 1
  /\ UNCHANGED <<inv, csv, kind, impl, rawText, lines, currentSucursalID, currentSucursalName, rows,
                 pc, value, parsed>>

\* line 207
Return001 ==
  /\ pc = "scan"
  /\ i > Len(lines)
  /\ pc' = "done"
  /\ UNCHANGED <<inv, csv, kind, impl, rawText, lines, i, currentSucursalID, currentSucursalName,
                 rows, value, parsed>>

Next001 == Split001 \/ SucursalLabel001 \/ EanLabel001 \/ OtherLine001 \/ Return001

Spec001 == Init001 /\ [][Next001]_vars

\* the header pattern of the running implementation matches at line k: in
\* part_001 the label line, an id line and a parenthesized name line
HeaderMatchAt(k) ==
  IF impl = "part_001"
  THEN /\ LowerCase(lines[k]) = LowerCase(kwSucursal)
       /\ TenDigits(LineOrEmpty(k + 1))
       /\ StartsWith(LineOrEmpty(k + 2), <<"(">>)
  ELSE sucursalMatch(lines[k])

\* C10: a loop iteration over a line that starts with "Sucursal" but does not
\* match the header pattern leaves the store id and name that an earlier
\* header established unchanged, and adds no record.
C10_MalformedHeaderKeepsContext ==
  [][(/\ pc = "scan"
      /\ i <= Len(lines)
      /\ i' > i
      /\ currentSucursalID # <<>>
      /\ currentSucursalName # <<>>
      /\ StartsWith(lines[i], kwSucursal)
      /\ ~HeaderMatchAt(i))
     => /\ currentSucursalID' = currentSucursalID
        /\ currentSucursalName' = currentSucursalName
        /\ rows' = rows]_vars

(***************************************************************************)
(* Two invocations of parseSalesReport (main.ts) whose loop iterations are  *)
(* interleaved.  inv[p] holds what invocation p keeps in its own scope: the *)
(* argument, the normalized lines, the cursor, the store context and the    *)
(* table under construction.                                                 *)
(***************************************************************************)
Procs == {1, 2}

MaxLinesP == 2

PoolP == {LineH1, LineH2, LineI1}

\* a text with a line that is neither header nor item
SkipTextP == JoinLines(<<LineX, LineI1>>, LF)

TextsP ==
  {JoinLines(ls, LF) : ls \in UNION {[1..n -> PoolP] : n \in 0..MaxLinesP}}
    \cup {SkipTextP}

\* lines 493-494: currentSucursalID and currentSucursalName are declared by
\* "let" inside the function, so invocation p finds them in its own scope
CtxSlot_Shared(p) == 1

CtxSlot(p) == p

\* lines 554-557 on the lines of one invocation
HasPersonaIn(ls, k) == k + 1 <= Len(ls) /\ StartsWith(ls[k + 1], lblPersona)

\* lines 565-572
NewRow(ls, k, id, name) ==
  LET r == parseImporteAndQuantity(eanMatch2(ls[k]))
  IN [SucursalID |-> id,
      SucursalName |-> name,
      EAN |-> eanMatch1(ls[k]),
      CantidadVendida |-> r.quantity,
      Importe |-> r.importe,
      NumPersonaVtas |-> IF HasPersonaIn(ls, k) THEN personaCapture(ls[k + 1])
                         ELSE <<>>]

\* lines 533-576 as one function of the normalized lines: the table that an
\* invocation running alone returns
RECURSIVE ScanFrom(_, _, _, _, _)
ScanFrom(ls, k, id, name, acc) ==
  IF k > Len(ls) THEN acc
  ELSE IF sucursalMatch(ls[k])
  THEN ScanFrom(ls, k + 1, sucursalMatch1(ls[k]), sucursalMatch2(ls[k]), acc)
  ELSE IF eanMatch(ls[k])
  THEN ScanFrom(ls, IF HasPersonaIn(ls, k) THEN k + 2 ELSE k + 1, id, name,
                Append(acc, NewRow(ls, k, id, name)))
  ELSE ScanFrom(ls, k + 1, id, name, acc)

\* lines 486-577
parseSalesReportAlone(text) == ScanFrom(NormalizeLines(text), 1, <<>>, <<>>, <<>>)

\* lines 486-503: the state of an invocation at its call
Invocation(text) ==
  [text |-> text, lines |-> <<>>, i |-> 1, id |-> <<>>, name |-> <<>>,
   rows |-> <<>>, pc |-> "start"]

InitP ==
  /\ impl = "main"
  /\ kind = "string"
  /\ csv = <<>>
  /\ inv \in [Procs -> {Invocation(t) : t \in TextsP}]
  /\ rawText = <<>>
  /\ lines = <<>>
  /\ i = 1
  /\ currentSucursalID = <<>>
  /\ currentSucursalName = <<>>
  /\ rows = <<>>
  /\ pc = "par"
  /\ value = <<>>
  /\ parsed = NoResult

globalVars == <<impl, rawText, lines, i, currentSucursalID, currentSucursalName,
                rows, pc, value, parsed, kind, csv>>

\* lines 488-491 in invocation p
PSplit(p) ==
  /\ inv[p].pc = "start"
  /\ inv' = [inv EXCEPT ![p].lines = NormalizeLines(inv[p].text), ![p].pc = "scan"]
  /\ UNCHANGED globalVars

\* lines 538-543 in invocation p
PSucursalLine(p) ==
  /\ inv[p].pc = "scan"
  /\ inv[p].i <= Len(inv[p].lines)
  /\ sucursalMatch(inv[p].lines[inv[p].i])
  /\ inv' = [q \in Procs |->
               [inv[q] EXCEPT
                  !.i = IF q = p THEN @ + 1 ELSE @,
                  !.id = IF q = CtxSlot(p)
                         THEN sucursalMatch1(inv[p].lines[inv[p].i]) ELSE @,
                  !.name = IF q = CtxSlot(p)
                           THEN sucursalMatch2(inv[p].lines[inv[p].i]) ELSE @]]
  /\ UNCHANGED globalVars

\* lines 546-573 in invocation p
PEanLine(p) ==
  /\ inv[p].pc = "scan"
  /\ inv[p].i <= Len(inv[p].lines)
  /\ ~sucursalMatch(inv[p].lines[inv[p].i])
  /\ eanMatch(inv[p].lines[inv[p].i])
  /\ inv' = [inv EXCEPT
               ![p].rows = Append(@, NewRow(inv[p].lines, inv[p].i,
                                            inv[CtxSlot(p)].id, inv[CtxSlot(p)].name)),
               ![p].i = IF HasPersonaIn(inv[p].lines, inv[p].i) THEN @ + 2 ELSE @ + 1]
  /\ UNCHANGED globalVars

\* lines 533-574 in invocation p: neither a header nor an item
PSkipLine(p) ==
  /\ inv[p].pc = "scan"
  /\ inv[p].i <= Len(inv[p].lines)
  /\ ~sucursalMatch(inv[p].lines[inv[p].i])
  /\ ~eanMatch(inv[p].lines[inv[p].i])
  /\ inv' = [inv EXCEPT ![p].i = @ + 1]
  /\ UNCHANGED globalVars

\* line 576 in invocation p
PReturn(p) ==
  /\ inv[p].pc = "scan"
  /\ inv[p].i > Len(inv[p].lines)
  /\ inv' = [inv EXCEPT ![p].pc = "done"]
  /\ UNCHANGED globalVars

NextP ==
  \E p \in Procs :
    PSplit(p) \/ PSucursalLine(p) \/ PEanLine(p) \/ PSkipLine(p) \/ PReturn(p)

SpecP == InitP /\ [][NextP]_vars

\* C11: two invocations on the same input return tables that are equal record
\* by record and field by field, whatever the first one left behind.
C11_Idempotent ==
  (inv[1].pc = "done" /\ inv[2].pc = "done" /\ inv[1].text = inv[2].text)
    => inv[1].rows = inv[2].rows

\* both invocations have parsed "item line, header line" and returned the one
\* record with the empty context
C11_Witness ==
  /\ inv[1].pc = "done"
  /\ inv[2].pc = "done"
  /\ inv[1].text = JoinLines(<<LineI1, LineH1>>, LF)
  /\ inv[2].text = inv[1].text
  /\ Len(inv[2].rows) = 1
  /\ inv[2].rows[1].SucursalID = <<>>
  /\ inv[1].id = SucursalIdOfH1

\* C20: under every interleaving of the loop iterations of two invocations,
\* each returns the table it returns when it runs alone.
C20_Interleaving ==
  \A p \in Procs :
    inv[p].pc = "done" => inv[p].rows = parseSalesReportAlone(inv[p].text)

\* invocation 1 is in the middle of its pass under one store while invocation
\* 2 has returned a record under another store
C20_Witness ==
  /\ inv[1].pc = "scan"
  /\ inv[1].i = 2
  /\ inv[1].id = SucursalIdOfH1
  /\ inv[2].pc = "done"
  /\ Len(inv[2].rows) = 1
  /\ inv[2].rows[1].SucursalID # <<>>
  /\ inv[2].rows[1].SucursalID # SucursalIdOfH1

(***************************************************************************)
(* parseSalesReport (main.ts) called with an argument of any type           *)
(***************************************************************************)
Kinds == {"string", "undefined", "null", "number"}

MaxLinesIn == 2

TextsIn == {JoinLines(ls, LF) : ls \in UNION {[1..n -> Pool] : n \in 0..MaxLinesIn}}

InitIn ==
  /\ impl = "main"
  /\ kind \in Kinds
  /\ rawText \in IF kind = "string" THEN TextsIn ELSE {<<>>}
  /\ csv = <<>>
  /\ inv = <<>>
  /\ lines = <<>>
  /\ i = 1
  /\ currentSucursalID = <<>>
  /\ currentSucursalName = <<>>
  /\ rows = <<>>
  /\ pc = "start"
  /\ value = <<>>
  /\ parsed = NoResult

\* mutant: the argument is coerced, a non-string is read as the empty text
SplitOrThrow_Coerce ==
  /\ pc = "start"
  /\ kind # "string"
  /\ lines' = <<>>
  /\ pc' = "scan"
  /\ UNCHANGED <<inv, csv, kind, impl, rawText, i, currentSucursalID,
                 currentSucursalName, rows, value, parsed>>

\* lines 488-489: rawText.split is the first thing evaluated; undefined and
\* null have no properties and a number has no split method, so the call
\* throws a TypeError before lines exists
SplitOrThrow ==
  /\ pc = "start"
  /\ kind # "string"
  /\ pc' = "threw"
  /\ UNCHANGED <<inv, csv, kind, impl, rawText, lines, i, currentSucursalID,
                 currentSucursalName, rows, value, parsed>>

NextIn == Next \/ SplitOrThrow

SpecIn == InitIn /\ [][NextIn]_vars

\* C12: with a non-string or absent argument the call fails before scanning:
\* it never enters the loop and never returns, no line is examined and no
\* record is produced.
C12_InvalidInput ==
  kind # "string" =>
    /\ pc \in {"start", "threw"}
    /\ lines = <<>>
    /\ i = 1
    /\ rows = <<>>
    /\ currentSucursalID = <<>>
    /\ currentSucursalName = <<>>

\* the call with the absent argument has thrown
C12_Witness ==
  /\ kind = "undefined"
  /\ pc = "threw"
  /\ rows = <<>>

(***************************************************************************)
(* parseSalesReport (main.ts) on header lines of several spellings          *)
(***************************************************************************)
LineH3 ==
  <<"S", "u", "c", "u", "r", "s", "a", "l", " ", "1", "2", "3", " ", "(",
    " ", "C", " ", ")">>

LineHS ==
  <<"S", "u", "c", "u", "r", "s", "a", "l", " ", "8", "4", "2", "2", "4",
    "1", "6", "2", "0", "0", "0", "3", "4", " ", "(", " ", "X", " ", ")">>

LineHU ==
  <<"S", "U", "C", "U", "R", "S", "A", "L", " ", "8", "4", "2", "2", "4",
    "1", "6", "2", "0", "0", "0", "3", "4", " ", "(", " ", "X", " ", ")">>

LineHL ==
  <<"s", "u", "c", "u", "r", "s", "a", "l", " ", "8", "4", "2", "2", "4",
    "1", "6", "2", "0", "0", "0", "3", "4", " ", "(", " ", "X", " ", ")">>

PoolH == {LineH1, LineH3, LineHS, LineHU, LineHL, LineI1}

MaxLinesH == 3

TextsH == {JoinLines(ls, LF) : ls \in UNION {[1..n -> PoolH] : n \in 0..MaxLinesH}}

InitH ==
  /\ impl = "main"
  /\ kind = "string"
  /\ rawText \in TextsH
  /\ csv = <<>>
  /\ inv = <<>>
  /\ lines = <<>>
  /\ i = 1
  /\ currentSucursalID = <<>>
  /\ currentSucursalName = <<>>
  /\ rows = <<>>
  /\ pc = "start"
  /\ value = <<>>
  /\ parsed = NoResult

SpecH == InitH /\ [][Next]_vars

\* C13: every record's SucursalID is empty or exactly 13 decimal digits.
C13_SucursalId13 ==
  \A k \in 1..Len(rows) :
    rows[k].SucursalID = <<>> \/ Ean13(rows[k].SucursalID)

\* the line with its first eight characters replaced by "Sucursal"
AsSucursal(l) == kwSucursal \o SliceFrom(l, Len(kwSucursal) + 1)

\* the line is a header up to the letter case of its keyword
HeaderAnyCase(l) ==
  /\ Len(l) >= Len(kwSucursal)
  /\ LowerCase(SubSeq(l, 1, Len(kwSucursal))) = LowerCase(kwSucursal)
  /\ sucursalMatch(AsSucursal(l))

\* C14: a header line whose keyword is spelled in any letter case updates the
\* store context exactly as the same line spelled "Sucursal ..." does.
C14_KeywordAnyCase ==
  [][(/\ pc = "scan"
      /\ i <= Len(lines)
      /\ i' > i
      /\ HeaderAnyCase(lines[i]))
     => /\ currentSucursalID' = sucursalMatch1(AsSucursal(lines[i]))
        /\ currentSucursalName' = sucursalMatch2(AsSucursal(lines[i]))]_vars

(***************************************************************************)
(* Further properties of parseSalesReport (main.ts), checked under Spec     *)
(***************************************************************************)
\* the lines the cursor has passed
Scanned == {k \in 1..Len(lines) : k < i}

\* the item lines among them, and the k-th of these in input order
ScannedItems == {k \in Scanned : ItemPattern(lines[k])}

KthScannedItem(k) ==
  CHOOSE j \in ScannedItems : Cardinality({h \in ScannedItems : h <= j}) = k

\* C15: as long as no header line has been scanned, every scanned item line
\* has produced a record, and each of these records has an empty SucursalID
\* and an empty SucursalName.
C15_ItemsBeforeHeader ==
  (pc # "start" /\ \A k \in Scanned : ~sucursalMatch(lines[k])) =>
    /\ Len(rows) = Cardinality(ScannedItems)
    /\ \A k \in 1..Len(rows) :
         rows[k].SucursalID = <<>> /\ rows[k].SucursalName = <<>>

\* two item lines were scanned before the first header, which is next
C15_Witness ==
  /\ pc = "scan"
  /\ i = 3
  /\ Len(lines) = 3
  /\ sucursalMatch(lines[3])
  /\ Len(rows) = 2
  /\ rows[1].SucursalID = <<>>
  /\ rows[2].SucursalName = <<>>

\* C16: the k-th record comes from the k-th scanned item line (it has that
\* line's EAN), and there are as many records as scanned item lines: equal
\* EANs under one store stay separate records.
C16_EncounterOrder ==
  pc # "start" =>
    /\ Len(rows) = Cardinality(ScannedItems)
    /\ \A k \in 1..Len(rows) : rows[k].EAN = SubSeq(lines[KthScannedItem(k)], 1, 13)

\* a finished pass with two records of the same EAN under the same store
C16_Witness ==
  /\ pc = "done"
  /\ Len(rows) = 2
  /\ rows[1].EAN = rows[2].EAN
  /\ rows[1].SucursalID = rows[2].SucursalID
  /\ rows[1].SucursalID # <<>>
  /\ rows[1].Importe # rows[2].Importe

\* C17: the iteration over a line that matches the header pattern leaves the
\* table exactly as it was and moves the cursor to the next line.
C17_HeaderOnlyContext ==
  [][(/\ pc = "scan"
      /\ i <= Len(lines)
      /\ sucursalMatch(lines[i]))
     => /\ rows' = rows
        /\ lines' = lines
        /\ i' = i + 1]_vars

\* a header line was scanned after an item line and the table still has the
\* one record
C17_Witness ==
  /\ pc = "scan"
  /\ i = 3
  /\ Len(lines) >= 2
  /\ sucursalMatch(lines[2])
  /\ currentSucursalID = sucursalMatch1(lines[2])
  /\ Len(rows) = 1
  /\ rows[1].SucursalID = <<>>

(***************************************************************************)
(* buildCSV of main.ts, part_005 and part_006, under SpecCSV: the table is  *)
(* one that parseSalesReport returns, impl selects the serializer           *)
(***************************************************************************)
MaxRows == 3

Comma == <<",">>

Quote(s) == <<"\"">> \o s \o <<"\"">>

\* main.ts lines 391-398
CSV_HEADERS ==
  <<<<"S", "u", "c", "u", "r", "s", "a", "l", "I", "D">>,
    <<"S", "u", "c", "u", "r", "s", "a", "l", "N", "a", "m", "e">>,
    <<"E", "A", "N">>,
    <<"C", "a", "n", "t", "i", "d", "a", "d", "V", "e", "n", "d", "i", "d", "a">>,
    <<"I", "m", "p", "o", "r", "t", "e">>,
    <<"N", "u", "m", "P", "e", "r", "s", "o", "n", "a", "V", "t", "a", "s">>>>

\* main.ts lines 583-605: all six fields are quoted
buildCSV(rs) ==
  LET header == JoinLines(CSV_HEADERS, Comma)
      csvLines == [k \in 1..Len(rs) |->
                     LET r == rs[k]
                     IN JoinLines(<<Quote(r.SucursalID), Quote(r.SucursalName),
                                    Quote(r.EAN), Quote(r.CantidadVendida),
                                    Quote(r.Importe), Quote(r.NumPersonaVtas)>>, Comma)]
  IN header \o LF \o JoinLines(csvLines, LF)

\* part_005 lines 211-233: only SucursalName is quoted
buildCSV005(rs) ==
  LET header == JoinLines(CSV_HEADERS, Comma)
      csvLines == [k \in 1..Len(rs) |->
                     LET r == rs[k]
                     IN JoinLines(<<r.SucursalID, Quote(r.SucursalName),
                                    r.EAN, r.CantidadVendida,
                                    r.Importe, r.NumPersonaVtas>>, Comma)]
  IN header \o LF \o JoinLines(csvLines, LF)

\* part_006 lines 179-201: only SucursalName is quoted
buildCSV006(rs) ==
  LET header == JoinLines(CSV_HEADERS, Comma)
      csvLines == [k \in 1..Len(rs) |->
                     LET r == rs[k]
                     IN JoinLines(<<r.SucursalID, Quote(r.SucursalName),
                                    r.EAN, r.CantidadVendida,
                                    r.Importe, r.NumPersonaVtas>>, Comma)]
  IN header \o LF \o JoinLines(csvLines, LF)

CsvImpls == {"main", "part_005", "part_006"}

\* records as parseSalesReport emits them: with header and persona line, with
\* a header of another spelling, and before any header
\* a header whose name holds double quotes and a comma
LineHQ ==
  <<"S", "u", "c", "u", "r", "s", "a", "l", " ", "1", " ", "(", " ", "A",
    "\"", ",", "\"", "B", " ", ")">>

RowTexts ==
  {JoinLines(<<LineH1, LineI1, LineP1>>, LF),
   JoinLines(<<LineH2, LineI2>>, LF),
   JoinLines(<<LineHQ, LineI3>>, LF),
   LineI3}

RowPool == {Last(parseSalesReportAlone(t)) : t \in RowTexts}

Tables == UNION {[1..n -> RowPool] : n \in 0..MaxRows}

InitCSV ==
  /\ impl \in CsvImpls
  /\ kind = "string"
  /\ csv = <<>>
  /\ inv = <<>>
  /\ rawText = <<>>
  /\ lines = <<>>
  /\ i = 1
  /\ currentSucursalID = <<>>
  /\ currentSucursalName = <<>>
  /\ rows \in Tables
  /\ pc = "build"
  /\ value = <<>>
  /\ parsed = NoResult

\* main.ts line 444: const csvString = buildCSV(rows)
BuildCSV ==
  /\ pc = "build"
  /\ csv' = CASE impl = "main" -> buildCSV(rows)
              [] impl = "part_005" -> buildCSV005(rows)
              [] impl = "part_006" -> buildCSV006(rows)
  /\ pc' = "built"
  /\ UNCHANGED <<impl, kind, inv, rawText, lines, i, currentSucursalID,
                 currentSucursalName, rows, value, parsed>>

NextCSV == BuildCSV

SpecCSV == InitCSV /\ [][NextCSV]_vars

\* the '\n'-separated pieces of the output
CsvLines == SplitOn(csv, "\n")

\* the line of a record with each of the six fields in double quotes
AllQuoted(r) ==
  JoinLines(<<Quote(r.SucursalID), Quote(r.SucursalName), Quote(r.EAN),
              Quote(r.CantidadVendida), Quote(r.Importe),
              Quote(r.NumPersonaVtas)>>, Comma)

\* C18: in the output of every serializer, the line of the k-th record has
\* all six fields wrapped in double quotes.
C18_EveryFieldQuoted ==
  pc = "built" =>
    \A k \in 1..Len(rows) :
      /\ Len(CsvLines) >= k + 1
      /\ CsvLines[k + 1] = AllQuoted(rows[k])

\* C19: the output of buildCSV of main.ts for a table of n records is the
\* header line and the n record lines in table order joined by '\n': n + 1
\* lines, also for n = 0.
C19_HeaderAndNLines ==
  (pc = "built" /\ impl = "main") =>
    /\ Len(CsvLines) = Len(rows) + 1
    /\ CsvLines[1] = JoinLines(CSV_HEADERS, Comma)
    /\ \A k \in 1..Len(rows) : CsvLines[k + 1] = AllQuoted(rows[k])
    /\ csv = JoinLines(CsvLines, LF)

(***************************************************************************)
(* parseSalesReport of part_005: a case-insensitive header regex with a     *)
(* 13-digit id, and a persona lookahead that uses includes                  *)
(***************************************************************************)
MaxLines005 == 3

\* s.includes(p), and the position of the first occurrence of p in s
OccursAt(s, p, k) == k + Len(p) - 1 <= Len(s) /\ SubSeq(s, k, k + Len(p) - 1) = p

Includes(s, p) == \E k \in 1..Len(s) : OccursAt(s, p, k)

IndexOf(s, p) ==
  CHOOSE k \in 1..Len(s) : OccursAt(s, p, k) /\ \A j \in 1..(k - 1) : ~OccursAt(s, p, j)

\* part_005 line 136: /^Sucursal\s+(\d{13})\s*\(\s*([^)]*)\s*\)/i
sucursalMatch005(l) ==
  /\ Len(l) >= Len(kwSucursal)
  /\ LowerCase(SubSeq(l, 1, Len(kwSucursal))) = LowerCase(kwSucursal)
  /\ SucIdStart(l) > Len(kwSucursal) + 1
  /\ SucIdEnd(l) - SucIdStart(l) = 13
  /\ SucParen(l) <= Len(l)
  /\ l[SucParen(l)] = "("
  /\ \E q \in (SucParen(l) + 1)..Len(l) : l[q] = ")"

\* sm[2]: \s* takes the white space after "(", the greedy [^)]* everything up
\* to the first ")", the white space before it included
sucursalMatch005_2(l) ==
  LET q == CHOOSE q \in (SucParen(l) + 1)..Len(l) :
             l[q] = ")" /\ \A j \in (SucParen(l) + 1)..(q - 1) : l[j] # ")"
      inner == SubSeq(l, SucParen(l) + 1, q - 1)
  IN SliceFrom(inner, RunEnd(inner, 1, WhiteSpace))

\* part_005 line 163: lines[i + 1].match(/Num\. Persona Vtas:\s*(\S+)/) where
\* the label may stand anywhere in the (trimmed) line
personaCapture005(l) ==
  LET a == RunEnd(l, IndexOf(l, lblPersona) + Len(lblPersona), WhiteSpace)
      b == RunEnd(l, a, {l[k] : k \in 1..Len(l)} \ WhiteSpace)
  IN IF b > a THEN SubSeq(l, a, b - 1) ELSE <<>>

\* part_005 line 162
HasPersona005(k) == k + 1 <= Len(lines) /\ Includes(lines[k + 1], lblPersona)

\* an item line that carries the label after its start
LineIL ==
  <<"8", "4", "3", "7", "0", "2", "1", "8", "0", "7", "9", "9", "9", " ",
    "4", "9", ",", "9", "1", " ", "N", "u", "m", ".", " ", "P", "e", "r",
    "s", "o", "n", "a", " ", "V", "t", "a", "s", ":", " ", "7">>

Pool005 == {LineH1, LineHU, LineI1, LineP1, LineIL, LineX}

Texts005 == {JoinLines(ls, LF) : ls \in UNION {[1..n -> Pool005] : n \in 0..MaxLines005}}

Init005 ==
  /\ impl = "part_005"
  /\ kind = "string"
  /\ csv = <<>>
  /\ inv = <<>>
  /\ rawText \in Texts005
  /\ lines = <<>>
  /\ i = 1
  /\ currentSucursalID = <<>>
  /\ currentSucursalName = <<>>
  /\ rows = <<>>
  /\ pc = "start"
  /\ value = <<>>
  /\ parsed = NoResult

\* part_005 lines 117-120
SplitAndFilter005 ==
  /\ pc = "start"
  /\ lines' = NormalizeLines(rawText)
  /\ pc' = "scan"
  /\ UNCHANGED <<inv, csv, kind, impl, rawText, i, currentSucursalID,
                 currentSucursalName, rows, value, parsed>>

\* part_005 lines 146-151
SucursalLine005 ==
  /\ pc = "scan"
  /\ i <= Len(lines)
  /\ sucursalMatch005(lines[i])
  /\ currentSucursalID' = sucursalMatch1(lines[i])
  /\ currentSucursalName' = sucursalMatch005_2(lines[i])
  /\ i' = i + 1
  /\ UNCHANGED <<inv, csv, kind, impl, rawText, lines, rows, pc, value, parsed>>

\* part_005 lines 154-178
EanLine005 ==
  /\ pc = "scan"
  /\ i <= Len(lines)
  /\ ~sucursalMatch005(lines[i])
  /\ eanMatch(lines[i])
  /\ LET r == parseImporteAndQuantity005(eanMatch2(lines[i]))
         persona == IF HasPersona005(i) THEN personaCapture005(lines[i + 1])
                    ELSE <<>>
     IN rows' = Append(rows, [SucursalID |-> currentSucursalID,
                              SucursalName |-> currentSucursalName,
                              EAN |-> eanMatch1(lines[i]),
                              CantidadVendida |-> r.quantity,
                              Importe |-> r.importe,
                              NumPersonaVtas |-> persona])
  /\ i' = IF HasPersona005(i) THEN i + 2 ELSE i + 1
  /\ UNCHANGED <<inv, csv, kind, impl, rawText, lines, currentSucursalID,
                 currentSucursalName, pc, value, parsed>>

\* part_005 lines 143-179: a line that is neither a header nor an item
SkipLine005 ==
  /\ pc = "scan"
  /\ i <= Len(lines)
  /\ ~sucursalMatch005(lines[i])
  /\ ~eanMatch(lines[i])
  /\ i' = i + 1
  /\ UNCHANGED <<inv, csv, kind, impl, rawText, lines, currentSucursalID,
                 currentSucursalName, rows, pc, value, parsed>>

\* part_005 line 181
Return005 ==
  /\ pc = "scan"
  /\ i > Len(lines)
  /\ pc' = "done"
  /\ UNCHANGED <<inv, csv, kind, impl, rawText, lines, i, currentSucursalID,
                 currentSucursalName, rows, value, parsed>>

Next005 ==
  SplitAndFilter005 \/ SucursalLine005 \/ EanLine005 \/ SkipLine005 \/ Return005

Spec005 == Init005 /\ [][Next005]_vars

\* C21: when the line after an item line does not start with the label
\* "Num. Persona Vtas:", the iteration over the item line moves the cursor to
\* that next line, which the loop then scans itself.
C21_NoPersonaNoAdvance ==
  [][(/\ pc = "scan"
      /\ i < Len(lines)
      /\ ItemPattern(lines[i])
      /\ ~StartsWith(lines[i + 1], lblPersona)
      /\ i' # i)
     => i' = i + 1]_vars

\* C22: a record made from an item line whose next line starts with the
\* label has as NumPersonaVtas the whole text after the colon, trimmed.
C22_PersonaWholeText ==
  [][(/\ pc = "scan"
      /\ i < Len(lines)
      /\ StartsWith(lines[i + 1], lblPersona)
      /\ Len(rows') = Len(rows) + 1)
     => Last(rows').NumPersonaVtas =
          Trim(SliceFrom(lines[i + 1], Len(lblPersona) + 1))]_vars

(***************************************************************************)
(* Further properties of parseImporteAndQuantity (main.ts), under SpecD     *)
(***************************************************************************)
\* the parts of the dot-stripped token around its commas
CleanedParts(v) == SplitOn(StripDots(v), ",")

\* C23: when the part after the comma has more than two characters, the
\* quantity is exactly the characters after the first two, leading zeros
\* included, and the price is the integer part, ".", and the first two.
C23_QuantityLiteral ==
  (/\ pc = "returned"
   /\ impl = "main"
   /\ Len(CleanedParts(value)) = 2
   /\ Len(CleanedParts(value)[2]) > 2)
    => /\ parsed.quantity = SliceFrom(CleanedParts(value)[2], 3)
       /\ Len(parsed.quantity) = Len(CleanedParts(value)[2]) - 2
       /\ parsed.importe =
            CleanedParts(value)[1] \o <<".">> \o SubSeq(CleanedParts(value)[2], 1, 2)

\* "7,0707" was decomposed into price 7.07 and quantity "07"
C23_Witness ==
  /\ pc = "returned"
  /\ impl = "main"
  /\ value = <<"7", ",", "0", "7", "0", "7">>
  /\ parsed = [importe |-> <<"7", ".", "0", "7">>, quantity |-> <<"0", "7">>]

(***************************************************************************)
(* The decomposition as the parsers apply it to the token of an item line   *)
(***************************************************************************)
\* number of "." characters in s
RECURSIVE CountDots(_)
CountDots(s) ==
  IF s = <<>> THEN 0
  ELSE (IF Head(s) = "." THEN 1 ELSE 0) + CountDots(Tail(s))

\* s.slice(0, 2)
FirstTwo(s) == SubSeq(s, 1, IF Len(s) < 2 THEN Len(s) ELSE 2)

\* C24: the record of an item line whose dot-stripped token splits on ","
\* into two parts has an Importe with exactly one "." (the decimal point put
\* between the parts) and a CantidadVendida with none: the dots of the token
\* are stripped before the split.
C24_DotsStripped ==
  [][(/\ pc = "scan"
      /\ i <= Len(lines)
      /\ ItemPattern(lines[i])
      /\ Len(rows') = Len(rows) + 1
      /\ Len(CleanedParts(eanMatch2(lines[i]))) = 2)
     => /\ CountDots(Last(rows').Importe) = 1
        /\ CountDots(Last(rows').CantidadVendida) = 0
        /\ Last(rows').Importe =
             CleanedParts(eanMatch2(lines[i]))[1] \o <<".">>
               \o FirstTwo(CleanedParts(eanMatch2(lines[i]))[2])]_vars

(***************************************************************************)
(* parseSalesReport of part_001 as one function of its trimmed lines        *)
(***************************************************************************)
\* ls[k] || ""
LineOrEmptyIn(ls, k) == IF k <= Len(ls) THEN ls[k] ELSE <<>>

\* part_001 lines 172-180 on the lines ls
PersonaLine001In(ls, k) ==
  LET js == {j \in 1..5 : /\ StartsWith(LineOrEmptyIn(ls, k + j), lblPersona)
                          /\ \A h \in 1..(j - 1) :
                               /\ LineOrEmptyIn(ls, k + h) # <<>>
                               /\ ~StartsWith(LineOrEmptyIn(ls, k + h), lblPersona)}
  IN IF js = {} THEN <<>> ELSE LineOrEmptyIn(ls, k + CHOOSE j \in js : TRUE)

\* part_001 lines 129-207: the loop from line k on, with the context id, name
\* and the table acc built so far
RECURSIVE Scan001(_, _, _, _, _)
Scan001(ls, k, id, name, acc) ==
  IF k > Len(ls) THEN acc
  ELSE IF LowerCase(ls[k]) = LowerCase(kwSucursal)
  THEN Scan001(ls, k + 1,
               IF TenDigits(LineOrEmptyIn(ls, k + 1)) THEN LineOrEmptyIn(ls, k + 1)
               ELSE <<>>,
               IF StartsWith(LineOrEmptyIn(ls, k + 2), <<"(">>)
               THEN Trim(StripParens(LineOrEmptyIn(ls, k + 2)))
               ELSE <<>>,
               acc)
  ELSE IF LowerCase(ls[k]) = LowerCase(kwEAN) /\ TenDigits(LineOrEmptyIn(ls, k + 1))
  THEN Scan001(ls, k + 1, id, name,
               Append(acc, [SucursalID |-> id,
                            SucursalName |-> name,
                            EAN |-> LineOrEmptyIn(ls, k + 1),
                            CantidadVendida |-> LineOrEmptyIn(ls, k + 3),
                            Importe |-> LineOrEmptyIn(ls, k + 2),
                            NumPersonaVtas |->
                              IF PersonaLine001In(ls, k) = <<>> THEN <<>>
                              ELSE personaCapture(PersonaLine001In(ls, k))]))
  ELSE Scan001(ls, k + 1, id, name, acc)

\* the table part_001 returns for a text whose trimmed lines are ls
Table001(ls) == Scan001(ls, 1, <<>>, <<>>, <<>>)

\* C25: the returned table is the table of the trimmed, non-empty lines of
\* the input alone: empty lines in the input make no difference.
C25_NormalizedLinesOnly ==
  pc = "done" => rows = Table001(FilterNonEmpty(lines))

(***************************************************************************)
(* The loop of parseSalesReport (main.ts 533-576) run to its end: SpecT     *)
(* starts at the loop entry, with the normalized lines already computed,    *)
(* and runs the iterations under weak fairness: a running function keeps    *)
(* executing                                                                 *)
(***************************************************************************)
MaxLinesT == 3

\* short lines of each kind: header, item, persona, other
LineHT ==
  <<"S", "u", "c", "u", "r", "s", "a", "l", " ", "1", " ", "(", " ", "A",
    " ", ")">>

LineIT ==
  <<"8", "4", "3", "7", "0", "2", "1", "8", "0", "7", "0", "1", "1", " ",
    "1", ",", "5">>

LinePT ==
  <<"N", "u", "m", ".", " ", "P", "e", "r", "s", "o", "n", "a", " ", "V",
    "t", "a", "s", ":", " ", "7">>

LineXT ==
  <<"x">>

PoolT == {LineHT, LineIT, LinePT, LineXT}

LineSeqsT == UNION {[1..n -> PoolT] : n \in 0..MaxLinesT}

InitT ==
  /\ impl = "main"
  /\ kind = "string"
  /\ csv = <<>>
  /\ inv = <<>>
  /\ lines \in LineSeqsT
  /\ rawText = JoinLines(lines, LF)
  /\ i = 1
  /\ currentSucursalID = <<>>
  /\ currentSucursalName = <<>>
  /\ rows = <<>>
  /\ pc = "scan"
  /\ value = <<>>
  /\ parsed = NoResult

NextT == SucursalLine \/ EanLine \/ SkipLine \/ Return

SpecT == InitT /\ [][NextT]_vars /\ WF_vars(NextT)

\* C26: every loop iteration moves the cursor forward, by 2 exactly when the
\* line is an item line followed by a persona line and by 1 otherwise; the
\* cursor never leaves 1..Len(lines)+1, so there are at most Len(lines)
\* iterations and no line is scanned twice; and the pass returns.
C26_SingleForwardPass ==
  /\ [][(pc = "scan" /\ i' # i)
        => /\ i <= Len(lines)
           /\ i' = IF ~sucursalMatch(lines[i]) /\ ItemPattern(lines[i]) /\ HasPersona(i)
                   THEN i + 2 ELSE i + 1
           /\ i' <= Len(lines) + 1]_vars
  /\ [](pc = "scan" => i \in 1..(Len(lines) + 1))
  /\ <>(pc = "done")

\* the pass has returned after two iterations over three lines: a header
\* line, then an item line that consumed its persona line
C26_Witness ==
  /\ pc = "done"
  /\ lines = <<LineHT, LineIT, LinePT>>
  /\ i = 4
  /\ Len(rows) = 1

\* C27: the iteration over an item line that is the last normalized line
\* looks at no line after it: the pass goes on (nothing is raised), the cursor
\* stops right after the last line, and the record of the line is appended
\* with an empty NumPersonaVtas.
C27_LookaheadInRange ==
  [][(/\ pc = "scan"
      /\ i >= 1
      /\ i = Len(lines)
      /\ ItemPattern(lines[i]))
     => /\ pc' = "scan"
        /\ i' = Len(lines) + 1
        /\ Len(rows') = Len(rows) + 1
        /\ SubSeq(rows', 1, Len(rows)) = rows
        /\ Last(rows').EAN = SubSeq(lines[i], 1, 13)
        /\ Last(rows').NumPersonaVtas = <<>>]_vars

\* C28: the iteration over a line that starts with "Num. Persona Vtas:" (the
\* cursor only stands on such a line when no item line consumed it) changes
\* neither the table nor the store context; and the NumPersonaVtas of every
\* record is taken from the line right after its own item line or is empty.
C28_OrphanPersonaDiscarded ==
  /\ [][(/\ pc = "scan"
         /\ i <= Len(lines)
         /\ StartsWith(lines[i], lblPersona)
         /\ i' # i)
        => /\ rows' = rows
           /\ currentSucursalID' = currentSucursalID
           /\ currentSucursalName' = currentSucursalName
           /\ i' = i + 1]_vars
  /\ [](pc \in {"scan", "done"} =>
          \A k \in 1..Len(rows) :
            k <= Cardinality(ScannedItems) =>
              rows[k].NumPersonaVtas =
                IF HasPersona(KthScannedItem(k))
                THEN personaCapture(lines[KthScannedItem(k) + 1])
                ELSE <<>>)

\* an item line, a discarded line and then a persona line: the pass returned
\* the one record with an empty NumPersonaVtas
C28_Witness ==
  /\ pc = "done"
  /\ lines = <<LineI1, LineX, LineP1>>
  /\ Len(rows) = 1
  /\ rows[1].NumPersonaVtas = <<>>

(***************************************************************************)
(* Reading a record line of the CSV back                                    *)
(***************************************************************************)
\* what the reader returns for a line that is not a sequence of double-quoted
\* fields separated by commas
Malformed == <<"malformed">>

\* the fields of a line of double-quoted, comma-separated fields: each field
\* runs from an opening double quote to the next double quote, which a comma
\* or the end of the line must follow
RECURSIVE ParseQuoted(_)
ParseQuoted(s) ==
  IF s = <<>> \/ Head(s) # "\"" \/ \A k \in 2..Len(s) : s[k] # "\""
  THEN <<Malformed>>
  ELSE LET q == CHOOSE k \in 2..Len(s) :
                  s[k] = "\"" /\ \A j \in 2..(k - 1) : s[j] # "\""
           field == SubSeq(s, 2, q - 1)
           rest == SliceFrom(s, q + 1)
       IN IF rest = <<>> THEN <<field>>
          ELSE IF Head(rest) = "," THEN <<field>> \o ParseQuoted(Tail(rest))
          ELSE <<Malformed>>

\* C29: reading each record line of the output of buildCSV (main.ts) back
\* gives exactly the six values of the record.
C29_CsvRoundTrip ==
  (pc = "built" /\ impl = "main") =>
    \A k \in 1..Len(rows) :
      ParseQuoted(CsvLines[k + 1]) =
        <<rows[k].SucursalID, rows[k].SucursalName, rows[k].EAN,
          rows[k].CantidadVendida, rows[k].Importe, rows[k].NumPersonaVtas>>

(***************************************************************************)
(* splitTextBySucursal (main.ts 142-166) under SpecS.  inv holds the frame  *)
(* of the call: the arguments text and maxTokens, the lines, the index n of *)
(* the line the for-of loop takes next, chunks, currentChunk, currentSize.  *)
(***************************************************************************)
MaxLinesS == 3

LineS1 ==
  <<"s", "u", "c", "u", "r", "s", "a", "l", " ", "1">>

LineS2 ==
  <<"S", "u", "c", "u", "r", "s", "a", "l", " ", "2", " ", "x">>

LineSA ==
  <<"a", " ", "b", " ", "c">>

PoolS == {LineE, LineS1, LineS2, LineSA}

TextsS == {JoinLines(ls, LF) : ls \in UNION {[1..n -> PoolS] : n \in 0..MaxLinesS}}

MaxTokensS == {0, 2, 3, 5}

\* line.split(" ").length
WordCount(l) == Len(SplitOn(l, " "))

\* line.toLowerCase().startsWith("sucursal")
StartsWithSucursal(l) ==
  /\ Len(l) >= Len(kwSucursal)
  /\ LowerCase(SubSeq(l, 1, Len(kwSucursal))) = LowerCase(kwSucursal)

InitS ==
  /\ impl = "main"
  /\ kind = "string"
  /\ csv = <<>>
  /\ \E t \in TextsS, m \in MaxTokensS :
       inv = [text |-> t, maxTokens |-> m, lines |-> <<>>, n |-> 1,
              chunks |-> <<>>, currentChunk |-> <<>>, currentSize |-> 0]
  /\ rawText = <<>>
  /\ lines = <<>>
  /\ i = 1
  /\ currentSucursalID = <<>>
  /\ currentSucursalName = <<>>
  /\ rows = <<>>
  /\ pc = "split"
  /\ value = <<>>
  /\ parsed = NoResult

\* line 143: const lines = text.split("\n")
SplitText ==
  /\ pc = "split"
  /\ inv' = [inv EXCEPT !.lines = SplitOn(inv.text, "\n")]
  /\ pc' = "loop"
  /\ UNCHANGED <<impl, kind, csv, parserVars, value, parsed>>

\* lines 149-154: the condition under which the current chunk is closed
\* before the line is added
ClosesChunk(l) ==
  /\ StartsWithSucursal(l)
  /\ inv.currentSize > 0
  /\ inv.currentSize >= inv.maxTokens

\* lines 148-158, one iteration in which the current chunk is closed
IterateClosing ==
  /\ pc = "loop"
  /\ inv.n <= Len(inv.lines)
  /\ ClosesChunk(inv.lines[inv.n])
  /\ inv' = [inv EXCEPT !.chunks = Append(@, JoinLines(inv.currentChunk, LF)),
                        !.currentChunk = <<inv.lines[inv.n]>>,
                        !.currentSize = WordCount(inv.lines[inv.n]),
                        !.n = @ + 1]
  /\ UNCHANGED <<impl, kind, csv, parserVars, pc, value, parsed>>

\* lines 148-158, one iteration in which the line joins the current chunk
IterateAdding ==
  /\ pc = "loop"
  /\ inv.n <= Len(inv.lines)
  /\ ~ClosesChunk(inv.lines[inv.n])
  /\ inv' = [inv EXCEPT !.currentChunk = Append(@, inv.lines[inv.n]),
                        !.currentSize = @ + WordCount(inv.lines[inv.n]),
                        !.n = @ + 1]
  /\ UNCHANGED <<impl, kind, csv, parserVars, pc, value, parsed>>

\* lines 160-164
ReturnChunks ==
  /\ pc = "loop"
  /\ inv.n > Len(inv.lines)
  /\ inv' = [inv EXCEPT !.chunks = IF Len(inv.currentChunk) > 0
                                   THEN Append(@, JoinLines(inv.currentChunk, LF))
                                   ELSE @]
  /\ pc' = "returned"
  /\ UNCHANGED <<impl, kind, csv, parserVars, value, parsed>>

NextS == SplitText \/ IterateClosing \/ IterateAdding \/ ReturnChunks

SpecS == InitS /\ [][NextS]_vars

\* C30: the returned chunks joined by "\n" are the input text, no chunk is
\* empty, and every chunk after the first starts with "sucursal" in any case.
C30_LosslessPartition ==
  pc = "returned" =>
    /\ JoinLines(inv.chunks, LF) = inv.text
    /\ \A c \in 1..Len(inv.chunks) : inv.chunks[c] # <<>>
    /\ \A c \in 2..Len(inv.chunks) : StartsWithSucursal(inv.chunks[c])

====
